---- MODULE Spec2Model ----
(***************************************************************************)
(* Model of parser.py: the streaming whois record parser                  *)
(* (WhoisTextParser.__next__ and _parse_line) and the document value      *)
(* model (WhoisDocument.join_values).                                     *)
(*                                                                         *)
(* A Python str is a sequence of one-character strings; None is a value   *)
(* of its own (an optional is a record with a "none" flag).  A document   *)
(* under construction is the dict in insertion order: a sequence of       *)
(* entries [key, values] whose values is the list of fragments.  A joined *)
(* document is a sequence of entries [key, value] whose value is a str.   *)
(***************************************************************************)
EXTENDS Integers, Sequences, FiniteSets, TLC

VARIABLES
    pc,                       \* "idle": between two next calls; "loop": inside the for loop of __next__
    consumed,                 \* the lines the file iterator has delivered so far, in order
    exhausted,                \* the file iterator has signalled its end
    document,                 \* local `document` of __next__ (fragment lists)
    last_attribute_name,      \* local `last_attribute_name` of __next__ (optional str)
    call_start,               \* number of lines consumed when the current call began
    lines_processed_counter,  \* self._lines_processed_counter
    returned,                 \* history: the outcome of every finished next call, in order
    joins,                    \* join_values calls made on the object bound to `document`
    shared,                   \* the outcome (index of `returned`) that handed out the object
                              \* bound to `document`; 0 while no caller holds that object
    path,                     \* SourceFile.path
    written,                  \* how the file at `path` was made: a text stored plain or
                              \* gzipped, or raw bytes
    disk,                     \* the bytes of the file at `path`
    stream,                   \* what reading the file through the chosen opener gives
    _file,                    \* SourceFile._file: None, or the handle it stored
    _file_open_function,      \* SourceFile._file_open_function
    handles,                  \* the handles opened so far, each with its opener and `closed`
    in_with,                  \* a `with` block entered on the SourceFile has not exited yet
    source_errors,            \* history: the errors raised by __enter__ and by reads
    gen,                      \* the generator parse_file(path): where its frame stands
    handled,                  \* the outcomes of `next(parser)` the generator has acted on
    yielded,                  \* the documents the generator has yielded
    consumer,                 \* load_data: where its loop stands
    document_processed_counter,
    unique_documents

\* the parser and its caller
parser_vars == <<pc, consumed, exhausted, document, last_attribute_name, call_start,
                 lines_processed_counter, returned, joins, shared>>

\* the SourceFile and the file it names
source_vars == <<path, written, disk, stream, _file, _file_open_function, handles, in_with, source_errors>>

\* parse_file and load_data
driver_vars == <<gen, handled, yielded, consumer, document_processed_counter, unique_documents>>

vars == <<parser_vars, source_vars, driver_vars>>

-----------------------------------------------------------------------------
(* Bounds of the model *)

\* longest input, in lines, of the general specification
MaxLines == 4
\* longest input, in lines, of the scenario specification
MaxScenarioLines == 5
\* how many next calls a run may make once the file is exhausted
MaxCallsAtEnd == 2

-----------------------------------------------------------------------------
(* Python values *)

None == [none |-> TRUE, s |-> <<>>]
Some(s) == [none |-> FALSE, s |-> s]
\* Python truthiness of an optional str: neither None nor ''
Truthy(o) == ~o.none /\ o.s # <<>>

\* WhoisTextParser.__init__ defaults
attribute_divider == <<":">>
document_divider_pattern == <<"\n">>
commentary_symbol == <<"#">>

\* str.startswith
startswith(s, prefix) ==
    /\ Len(s) >= Len(prefix)
    /\ SubSeq(s, 1, Len(prefix)) = prefix

\* the characters str.strip() removes
IsSpace(c) == c \in {" ", "\t", "\n"}

RECURSIVE lstrip(_)
lstrip(s) ==
    IF s # <<>> /\ IsSpace(Head(s)) THEN lstrip(Tail(s)) ELSE s

RECURSIVE rstrip(_)
rstrip(s) ==
    IF s # <<>> /\ IsSpace(s[Len(s)]) THEN rstrip(SubSeq(s, 1, Len(s) - 1)) ELSE s

\* str.strip
strip(s) == rstrip(lstrip(s))

\* str.split(sep) for a one-character sep: the parts between ALL occurrences
RECURSIVE split(_, _)
split(s, sep) ==
    IF \E i \in 1..Len(s) : <<s[i]>> = sep
    THEN LET i == CHOOSE j \in 1..Len(s) :
                      /\ <<s[j]>> = sep
                      /\ \A k \in 1..(j - 1) : <<s[k]>> # sep
         IN  <<SubSeq(s, 1, i - 1)>> \o split(SubSeq(s, i + 1, Len(s)), sep)
    ELSE <<s>>

\* str.join
RECURSIVE join(_, _)
join(join_with, parts) ==
    IF parts = <<>> THEN <<>>
    ELSE IF Len(parts) = 1 THEN parts[1]
    ELSE parts[1] \o join_with \o join(join_with, Tail(parts))

-----------------------------------------------------------------------------
(* WhoisDocument *)

\* mutant: the document of the previous call is kept instead of a new one
WhoisDocument_kept == document

\* the code point of each character of the inputs
CharCode(c) ==
    CASE c = "\t" -> 9   [] c = "\n" -> 10  [] c = " " -> 32  [] c = "#" -> 35
      [] c = "1" -> 49   [] c = "2" -> 50   [] c = "3" -> 51  [] c = ":" -> 58
      [] c = "a" -> 97   [] c = "b" -> 98

\* WhoisDocument(): the empty dict
WhoisDocument == <<>>

\* mutant: the object of the previous call is used again instead of a new one
new_document_reused == [entries |-> document, joins |-> joins, shared |-> shared]

\* `document = WhoisDocument()`: a new object, not joined, that no caller holds
new_document == [entries |-> WhoisDocument, joins |-> 0, shared |-> 0]

\* `key in document`
contains(doc, key) == \E i \in DOMAIN doc : doc[i].key = key

\* position of `key` in the insertion order
position(doc, key) == CHOOSE i \in DOMAIN doc : doc[i].key = key

\* mutant: a repeated attribute overwrites its fragments
add_value_overwriting(doc, attribute, value) ==
    IF ~contains(doc, attribute)
    THEN Append(doc, [key |-> attribute, values |-> <<value>>])
    ELSE [doc EXCEPT ![position(doc, attribute)].values = <<value>>]

\* document[attribute] = [value]  /  document[attribute].append(value)
add_value(doc, attribute, value) ==
    IF ~contains(doc, attribute)
    THEN Append(doc, [key |-> attribute, values |-> <<value>>])
    ELSE [doc EXCEPT ![position(doc, attribute)].values = Append(@, value)]

\* mutant: the fragments are joined without the separator
join_values_unseparated(doc) ==
    [i \in DOMAIN doc |-> [key |-> doc[i].key, value |-> join(<<>>, doc[i].values)]]

\* WhoisDocument.join_values with the default join_with = '\n'
join_values(doc) ==
    [i \in DOMAIN doc |-> [key |-> doc[i].key, value |-> join(<<"\n">>, doc[i].values)]]

\* dict.items() of a joined document
items(doc) == {<<doc[i].key, doc[i].value>> : i \in DOMAIN doc}

\* dict.__eq__, inherited: as many keys, and every key of `a` is a key of `b`
\* with an equal value
dict_eq(a, b) ==
    /\ Len(a) = Len(b)
    /\ \A i \in DOMAIN a :
           /\ contains(b, a[i].key)
           /\ b[position(b, a[i].key)].value = a[i].value

\* the width of a hash value, in bits
HashBits == 16

HashModulus == 2 ^ HashBits

\* hash of a str: many-to-one, depends on every character and its place
RECURSIVE hash_str(_, _)
hash_str(str, n) ==
    IF n = 0 THEN 7
    ELSE (hash_str(str, n - 1) * 31 + CharCode(str[n])) % HashModulus

\* hash of the tuple (key, value): depends on which is which
hash_item(item) ==
    (hash_str(item[1], Len(item[1])) * 3 + hash_str(item[2], Len(item[2])) + 1) % HashModulus

\* hash of a frozenset: combines the hashes of the elements in no order
RECURSIVE hash_frozenset(_)
hash_frozenset(set) ==
    IF set = {} THEN 0
    ELSE LET e == CHOOSE x \in set : TRUE IN
         (hash_item(e) + hash_frozenset(set \ {e})) % HashModulus

\* mutant: the hash of the items in insertion order
RECURSIVE hash_in_order(_, _)
hash_in_order(doc, h) ==
    IF doc = <<>> THEN h
    ELSE hash_in_order(Tail(doc), (h * 5 + hash_item(<<Head(doc).key, Head(doc).value>>)) % HashModulus)

__hash___in_order(doc) == hash_in_order(doc, 0)

\* WhoisDocument.__hash__: hash(frozenset(self.items()))
__hash__(doc) == hash_frozenset(items(doc))

-----------------------------------------------------------------------------
(* WhoisTextParser *)

_is_document_divider_found(line) == line = document_divider_pattern

\* mutant: a split that does not give two parts is swallowed as "no attribute"
unpack_lenient(parts) ==
    IF Len(parts) = 2
    THEN [raised |-> FALSE, key |-> Some(parts[1]), value |-> Some(parts[2])]
    ELSE [raised |-> FALSE, key |-> None, value |-> None]

\* `key, value = line.split(...)`: the unpacking raises ValueError unless the
\* split gave exactly two parts
unpack(parts) ==
    IF Len(parts) = 2
    THEN [raised |-> FALSE, key |-> Some(parts[1]), value |-> Some(parts[2])]
    ELSE [raised |-> TRUE, key |-> None, value |-> None]

\* `if key: key = key.strip()`
strip_if_truthy(o) == IF Truthy(o) THEN Some(strip(o.s)) ELSE o

_parse_line(line) ==
    LET kv == IF line = <<"\n">> \/ startswith(line, commentary_symbol)
              THEN [raised |-> FALSE, key |-> None, value |-> None]
              ELSE IF startswith(line, <<" ">>) \/ startswith(line, <<"\t">>)
              THEN [raised |-> FALSE, key |-> None, value |-> Some(line)]
              ELSE unpack(split(line, attribute_divider))
    IN  [raised |-> kv.raised,
         key    |-> strip_if_truthy(kv.key),
         value  |-> strip_if_truthy(kv.value)]

\* mutant: every divider line returns the document, empty or not
divider_step_always_returns(doc) == "return"

\* the divider branch of the loop: skip while the document is empty, else return it
divider_step(doc) == IF doc = <<>> THEN "continue" ELSE "return"

\* `if attribute is None and not last_attribute_name: continue`
\* mutant: no line is skipped
is_skipped_never(attribute, last) == FALSE

is_skipped(attribute, last) == attribute.none /\ ~Truthy(last)

\* the rest of the loop body, once the line is parsed and not skipped
store_step(doc, last, attribute, value) ==
    IF ~attribute.none /\ ~value.none
    THEN [kind |-> "continue", document |-> add_value(doc, attribute.s, value.s),
          last |-> attribute]
    ELSE IF attribute.none /\ Truthy(value)
    THEN IF contains(doc, last.s)
         THEN [kind |-> "continue", document |-> add_value(doc, last.s, value.s),
               last |-> attribute]
         ELSE [kind |-> "KeyError", document |-> doc, last |-> last]
    ELSE [kind |-> "continue", document |-> doc, last |-> attribute]

\* one iteration of `for line in self._file` after the counter increment
loop_body(doc, last, line) ==
    IF _is_document_divider_found(line)
    THEN [kind |-> divider_step(doc), document |-> doc, last |-> last]
    ELSE LET p == _parse_line(line) IN
         IF p.raised
         THEN [kind |-> "ValueError", document |-> doc, last |-> last]
         ELSE IF is_skipped(p.key, last)
         THEN [kind |-> "continue", document |-> doc, last |-> last]
         ELSE store_step(doc, last, p.key, p.value)

\* mutant: the end of the file always returns the document, even an empty one
exhausted_step_always_returns(doc) == "return"

\* mutant: the end of the file always ends the sequence, dropping the last record
exhausted_step_always_stops(doc) == "StopIteration"

\* after the loop: StopIteration for an empty document, else return it
exhausted_step(doc) == IF doc = <<>> THEN "StopIteration" ELSE "return"

\* `document.join_values()` before `return document`: one more join of the object
joined_on(kind, n) == IF kind = "return" THEN n + 1 ELSE n

\* `return document`: the caller now holds the object, as outcome number `k`
handed_out_on(kind, holder, k) == IF kind = "return" THEN k ELSE holder

\* mutant: divider lines are not counted
lines_counted_without_dividers(counter, line) ==
    IF _is_document_divider_found(line) THEN counter ELSE counter + 1

\* `self._lines_processed_counter += 1`, first statement of the loop body
lines_counted(counter, line) == counter + 1

\* what a finished call hands to its caller: the joined document or the exception,
\* with the lines the call consumed (first+1 .. last) and whether it ended on a
\* line ("line") or on the end of the file ("end")
Outcome(kind, doc, last_line, by) ==
    [kind  |-> IF kind = "return" THEN "document" ELSE kind,
     doc   |-> IF kind = "return" THEN join_values(doc) ELSE <<>>,
     first |-> call_start,
     last  |-> last_line,
     by    |-> by]

\* the documents that successive next calls yield on the whole input `lines`
\* (a call that raises ends; the next call starts over on the following line)
RECURSIVE parse(_, _, _, _)
parse(lines, doc, last, out) ==
    IF lines = <<>>
    THEN IF exhausted_step(doc) = "return" THEN Append(out, join_values(doc)) ELSE out
    ELSE LET r == loop_body(doc, last, Head(lines)) IN
         IF r.kind = "continue"
         THEN parse(Tail(lines), r.document, r.last, out)
         ELSE IF r.kind = "return"
         THEN parse(Tail(lines), <<>>, Some(<<>>), Append(out, join_values(r.document)))
         ELSE parse(Tail(lines), <<>>, Some(<<>>), out)

documents_of(lines) == parse(lines, <<>>, Some(<<>>), <<>>)

-----------------------------------------------------------------------------
(* Inputs *)

\* the lines of the general specification: every class of line the parser tells apart
Lines ==
    { <<"\n">>,                              \* document divider
      <<"#", "a", "\n">>,                    \* comment
      <<"a", ":", " ", "b", "\n">>,          \* attribute a, value to trim
      <<"a", ":", "a", "\n">>,               \* attribute a again, another value
      <<"b", ":", "a", "\n">>,               \* attribute b
      <<"\t", "b", "\n">>,                   \* continuation (tab; the scenario has the space)
      <<"a", "\n">>,                         \* no attribute divider
      <<"a", ":", "b", ":", "a", "\n">>,     \* two attribute dividers
      <<":", "b", "\n">> }                   \* empty attribute name

\* the lines of the spec's concrete scenario: 'a: 1', ' b2', '', 'a: 3'
ScenarioLines ==
    { <<"a", ":", " ", "1", "\n">>,
      <<" ", "b", "2", "\n">>,
      <<"\n">>,
      <<"a", ":", " ", "3", "\n">> }

-----------------------------------------------------------------------------
(* SourceFile *)

\* the longest text of a file, in lines
MaxTextLines == 2

\* the __enter__ calls and failing reads of one SourceFile
MaxSourceCalls == 3

\* the characters of the input lines: a string is a sequence of them, a list
\* of fragments is a sequence of strings
Characters == UNION {{l[i] : i \in DOMAIN l} : l \in Lines \cup ScenarioLines}

\* encoding = 'utf-8': the byte of each character of the inputs
ord(c) == CharCode(c)

encode(text) == [i \in DOMAIN text |-> ord(text[i])]

IsDecodable(bytes) == \A i \in DOMAIN bytes : \E c \in Characters : ord(c) = bytes[i]

decode(bytes) == [i \in DOMAIN bytes |-> CHOOSE c \in Characters : ord(c) = bytes[i]]

\* b'\x1f\x8b', the first two bytes of every gzip file
gzip_magic == <<31, 139>>

\* the gzip form of `bytes`: the magic, the payload in another byte code
\* (standing for the deflate stream), and the length of the payload as trailer
gzip_compress(bytes) ==
    gzip_magic \o [i \in DOMAIN bytes |-> 255 - bytes[i]] \o <<Len(bytes) % 256>>

IsGzip(bytes) ==
    /\ Len(bytes) >= 3
    /\ SubSeq(bytes, 1, 2) = gzip_magic
    /\ bytes[Len(bytes)] = (Len(bytes) - 3) % 256

gzip_decompress(bytes) == [i \in 1..(Len(bytes) - 3) |-> 255 - bytes[i + 2]]

\* mutant: the file is taken for gzipped by the first byte alone
is_file_gzipped_by_first_byte(bytes) == Len(bytes) >= 1 /\ bytes[1] = gzip_magic[1]

\* SourceFile.is_file_gzipped: `f.read(2) == b'\x1f\x8b'`
is_file_gzipped(bytes) == SubSeq(bytes, 1, IF Len(bytes) < 2 THEN Len(bytes) ELSE 2) = gzip_magic

\* SourceFile._get_file_opener_function
_get_file_opener_function(bytes) == IF is_file_gzipped(bytes) THEN "gzip.open" ELSE "open"

\* the lines a text file object iterates over: each ends after its '\n', the
\* last one where the text ends
RECURSIVE lines_of(_, _, _)
lines_of(text, line, out) ==
    IF text = <<>>
    THEN IF line = <<>> THEN out ELSE Append(out, line)
    ELSE IF Head(text) = "\n"
    THEN lines_of(Tail(text), <<>>, Append(out, Append(line, "\n")))
    ELSE lines_of(Tail(text), Append(line, Head(text)), out)

\* what reading a handle opened by `opener` in mode 'rt' gives: the lines of
\* the text, or the error of a file that is no gzip file or no text
read_lines(bytes, opener) ==
    IF opener = "gzip.open"
    THEN IF ~IsGzip(bytes)
         THEN [error |-> "EOFError", lines |-> <<>>]
         ELSE IF ~IsDecodable(gzip_decompress(bytes))
         THEN [error |-> "UnicodeDecodeError", lines |-> <<>>]
         ELSE [error |-> "", lines |-> lines_of(decode(gzip_decompress(bytes)), <<>>, <<>>)]
    ELSE IF ~IsDecodable(bytes)
         THEN [error |-> "UnicodeDecodeError", lines |-> <<>>]
         ELSE [error |-> "", lines |-> lines_of(decode(bytes), <<>>, <<>>)]

\* `self._file = None`
NoFile == 0

\* mutant: __enter__ opens the file whatever it stored before
is_opened_already_never(file) == FALSE

\* `if self._file is not None`
is_opened_already(file) == file # NoFile

\* SourceFile.__enter__ on the state sf = [file, handles, errors]: raises IOError
\* naming the path, or opens one more handle and stores it
__enter__(sf) ==
    IF is_opened_already(sf.file)
    THEN [sf EXCEPT !.errors = Append(@, [type    |-> "IOError",
                                          message |-> <<"File is opened already: ", path>>,
                                          closed  |-> sf.handles[sf.file].closed])]
    ELSE [sf EXCEPT !.handles = Append(@, [opener |-> _file_open_function, closed |-> FALSE]),
                    !.file = Len(sf.handles) + 1]

\* mutant: __exit__ forgets the handle it closed
stored_after_exit_cleared(file) == NoFile

\* __exit__ assigns nothing to self._file
stored_after_exit(file) == file

\* mutant: __exit__ leaves the handle open
close_skipped(handle) == handle

\* `self._file.close()`
close(handle) == [handle EXCEPT !.closed = TRUE]

\* SourceFile.__exit__: `if not self._file.closed: self._file.close()`
__exit__(sf) ==
    [sf EXCEPT !.handles = IF ~sf.handles[sf.file].closed
                           THEN [@ EXCEPT ![sf.file] = close(@)]
                           ELSE @,
               !.file = stored_after_exit(@)]

\* the SourceFile as the record the two methods work on
SourceFile == [file |-> _file, handles |-> handles, errors |-> source_errors]

\* the texts of at most `n` of the `lines`, and the same without the last '\n'
RECURSIVE Texts(_, _)
Texts(lines, n) ==
    IF n = 0 THEN {<<>>}
    ELSE LET shorter == Texts(lines, n - 1) IN
         shorter \cup {t \o l : t \in {s \in shorter : s = <<>> \/ s[Len(s)] = "\n"}, l \in lines}
                 \cup {t \o SubSeq(l, 1, Len(l) - 1) :
                           t \in {s \in shorter : s = <<>> \/ s[Len(s)] = "\n"}, l \in lines}

\* files that are neither a text of the inputs nor its gzip form: too short to
\* hold the magic, the two bytes swapped, the magic alone, the magic before text
RawFiles ==
    { <<gzip_magic[1]>>, <<gzip_magic[2], gzip_magic[1]>>, gzip_magic,
      <<gzip_magic[1]>> \o encode(<<"a", ":", "a", "\n">>),
      gzip_magic \o encode(<<"a", ":", "a", "\n">>) }

\* the ways a file is made: every text stored as it is and gzipped, and the
\* raw files
Writings(texts) ==
    [storage : {"plain", "gzip"}, text : texts, bytes : {<<>>}]
        \cup [storage : {"raw"}, text : {<<>>}, bytes : RawFiles]

\* the bytes on disk of a file made as `w`
bytes_of(w) ==
    CASE w.storage = "plain" -> encode(w.text)
      [] w.storage = "gzip"  -> gzip_compress(encode(w.text))
      [] w.storage = "raw"   -> w.bytes

Paths == {"whois.txt", "whois.gz"}

\* the lines of the files a SourceFile is opened on: an attribute line, a
\* continuation line, the divider, a comment line
SourceLines ==
    { <<"a", ":", " ", "b", "\n">>,
      <<"\t", "b", "\n">>,
      <<"\n">>,
      <<"#", "a", "\n">> }

-----------------------------------------------------------------------------
(* Actions *)

\* no SourceFile: the parser is given the iterator of its lines directly
no_source ==
    /\ path = ""
    /\ written = [storage |-> "raw", text |-> <<>>, bytes |-> <<>>]
    /\ disk = <<>>
    /\ stream = [error |-> "", lines |-> <<>>]
    /\ _file = NoFile
    /\ _file_open_function = "open"
    /\ handles = <<>>
    /\ in_with = FALSE
    /\ source_errors = <<>>

\* no generator and no consumer: the caller calls next itself
no_driver ==
    /\ gen = "none"
    /\ handled = 0
    /\ yielded = 0
    /\ consumer = "none"
    /\ document_processed_counter = 0
    /\ unique_documents = {}

Init ==
    /\ no_source
    /\ no_driver
    /\ pc = "idle"
    /\ consumed = <<>>
    /\ exhausted = FALSE
    /\ document = <<>>
    /\ last_attribute_name = Some(<<>>)
    /\ call_start = 0
    /\ lines_processed_counter = 0
    /\ returned = <<>>
    /\ joins = 0
    /\ shared = 0

\* the calls that ended on the end of the file
EndedAtEnd(r) == r.by = "end"
CallsAtEnd == Len(SelectSeq(returned, EndedAtEnd))

\* __next__ is entered: lines 161-162
CallNext ==
    /\ pc = "idle"
    /\ exhausted => CallsAtEnd < MaxCallsAtEnd
    /\ pc' = "loop"
    /\ document' = new_document.entries
    /\ joins' = new_document.joins
    /\ shared' = new_document.shared
    /\ last_attribute_name' = Some(<<>>)
    /\ call_start' = Len(consumed)
    /\ UNCHANGED <<consumed, exhausted, lines_processed_counter, returned>>
    /\ UNCHANGED <<source_vars, driver_vars>>

\* the file delivers `line` and the loop body runs on it: lines 164-193
ReadLine(line) ==
    /\ pc = "loop"
    /\ ~exhausted
    /\ consumed' = Append(consumed, line)
    /\ lines_processed_counter' = lines_counted(lines_processed_counter, line)
    /\ LET r == loop_body(document, last_attribute_name, line) IN
        /\ document' = r.document
        /\ last_attribute_name' = r.last
        /\ pc' = IF r.kind = "continue" THEN "loop" ELSE "idle"
        /\ returned' = IF r.kind = "continue" THEN returned
                       ELSE Append(returned, Outcome(r.kind, r.document, Len(consumed) + 1, "line"))
        /\ joins' = joined_on(r.kind, joins)
        /\ shared' = handed_out_on(r.kind, shared, Len(returned) + 1)
    /\ UNCHANGED <<exhausted, call_start>>
    /\ UNCHANGED <<source_vars, driver_vars>>

\* the file has no more lines: the loop ends, lines 195-200
EndOfFile ==
    /\ pc = "loop"
    /\ exhausted' = TRUE
    /\ pc' = "idle"
    /\ returned' = Append(returned, Outcome(exhausted_step(document), document, Len(consumed), "end"))
    /\ joins' = joined_on(exhausted_step(document), joins)
    /\ shared' = handed_out_on(exhausted_step(document), shared, Len(returned) + 1)
    /\ UNCHANGED <<consumed, document, last_attribute_name, call_start,
                   lines_processed_counter>>
    /\ UNCHANGED <<source_vars, driver_vars>>

\* the input of the general specification: at most MaxLines lines out of Lines
Read == \E line \in Lines : Len(consumed) < MaxLines /\ ReadLine(line)

Next ==
    \/ CallNext
    \/ Read
    \/ EndOfFile

Spec == Init /\ [][Next]_vars

\* the input of the scenario specification
ReadScenario ==
    \E line \in ScenarioLines : Len(consumed) < MaxScenarioLines /\ ReadLine(line)

NextScenario ==
    \/ CallNext
    \/ ReadScenario
    \/ EndOfFile

SpecScenario == Init /\ [][NextScenario]_vars

\* the parser as it is constructed: nothing read, no call made
parser_init ==
    /\ pc = "idle"
    /\ consumed = <<>>
    /\ exhausted = FALSE
    /\ document = <<>>
    /\ last_attribute_name = Some(<<>>)
    /\ call_start = 0
    /\ lines_processed_counter = 0
    /\ returned = <<>>
    /\ joins = 0
    /\ shared = 0

\* SourceFile(path): `_file` is None and the opener is chosen by the first two
\* bytes of the file, whatever its name
InitSource ==
    /\ parser_init
    /\ no_driver
    /\ path \in Paths
    /\ written \in Writings(Texts(SourceLines, MaxTextLines))
    /\ disk = bytes_of(written)
    /\ _file = NoFile
    /\ _file_open_function = _get_file_opener_function(disk)
    /\ stream = read_lines(disk, _file_open_function)
    /\ handles = <<>>
    /\ in_with = FALSE
    /\ source_errors = <<>>

SourceCalls == Len(handles) + Len(source_errors)

\* `with source_file:` or a direct call of __enter__
Enter ==
    /\ SourceCalls < MaxSourceCalls
    /\ LET sf == __enter__(SourceFile) IN
        /\ _file' = sf.file
        /\ handles' = sf.handles
        /\ source_errors' = sf.errors
        /\ in_with' = (in_with \/ ~is_opened_already(_file))
    /\ UNCHANGED <<path, written, disk, stream, _file_open_function, parser_vars, driver_vars>>

\* the end of the `with` block
Exit ==
    /\ in_with
    /\ LET sf == __exit__(SourceFile) IN
        /\ _file' = sf.file
        /\ handles' = sf.handles
        /\ source_errors' = sf.errors
    /\ in_with' = FALSE
    /\ UNCHANGED <<path, written, disk, stream, _file_open_function, parser_vars, driver_vars>>

\* the lines the stored handle gives
Contents == stream

\* the client pulls the next line from the handle inside the `with` block
ReadHandle ==
    /\ in_with
    /\ ~handles[_file].closed
    /\ Contents.error = ""
    /\ Len(consumed) < Len(Contents.lines)
    /\ consumed' = Append(consumed, Contents.lines[Len(consumed) + 1])
    /\ UNCHANGED <<pc, exhausted, document, last_attribute_name, call_start,
                   lines_processed_counter, returned, joins, shared>>
    /\ UNCHANGED <<source_vars, driver_vars>>

\* the read of a file that is no gzip file or no text raises
ReadFails ==
    /\ in_with
    /\ ~handles[_file].closed
    /\ Contents.error # ""
    /\ SourceCalls < MaxSourceCalls
    /\ source_errors' = Append(source_errors, [type |-> Contents.error, message |-> <<>>,
                                               closed |-> FALSE])
    /\ UNCHANGED <<path, written, disk, stream, _file, _file_open_function, handles, in_with, parser_vars,
                   driver_vars>>

NextSource == Enter \/ Exit \/ ReadHandle \/ ReadFails

SpecSource == InitSource /\ [][NextSource]_vars

\* the longest file the driver is run on, in lines
MaxDriverLines == 5

\* the lines of the driver's files: two attribute lines, the divider, and a
\* line without attribute divider
DriverLines ==
    { <<"a", ":", "a", "\n">>,
      <<"b", ":", "a", "\n">>,
      <<"\n">>,
      <<"a", "\n">> }

\* the texts of at most `n` of the `lines`
RECURSIVE FullTexts(_, _)
FullTexts(lines, n) ==
    IF n = 0 THEN {<<>>}
    ELSE LET shorter == FullTexts(lines, n - 1) IN
         shorter \cup {t \o l : t \in shorter, l \in lines}

\* load_data(path) up to `parsed_data = parse_file(path)`: the counters are
\* zero, the generator is made and has not run; the file is a text, plain or
\* gzipped
InitDriver ==
    /\ parser_init
    /\ path = "whois.txt"
    /\ written \in [storage : {"plain", "gzip"}, text : FullTexts(DriverLines, MaxDriverLines),
                     bytes : {<<>>}]
    /\ disk = bytes_of(written)
    /\ _file = NoFile
    /\ _file_open_function = _get_file_opener_function(disk)
    /\ stream = read_lines(disk, _file_open_function)
    /\ handles = <<>>
    /\ in_with = FALSE
    /\ source_errors = <<>>
    /\ gen = "created"
    /\ handled = 0
    /\ yielded = 0
    /\ consumer = "pulling"
    /\ document_processed_counter = 0
    /\ unique_documents = {}

\* the first next(parsed_data): `with SourceFile(path) as source_file` and
\* `parser = WhoisTextParser(source_file)`
GenStart ==
    /\ consumer = "pulling"
    /\ gen = "created"
    /\ LET sf == __enter__(SourceFile) IN
        /\ _file' = sf.file
        /\ handles' = sf.handles
        /\ source_errors' = sf.errors
    /\ in_with' = TRUE
    /\ gen' = "running"
    /\ UNCHANGED <<path, written, disk, stream, _file_open_function, parser_vars>>
    /\ UNCHANGED <<handled, yielded, consumer, document_processed_counter, unique_documents>>

\* leaving the `with` block, on any way out of it
LeaveWith ==
    /\ LET sf == __exit__(SourceFile) IN
        /\ _file' = sf.file
        /\ handles' = sf.handles
        /\ source_errors' = sf.errors
    /\ in_with' = FALSE
    /\ UNCHANGED <<path, written, disk, stream, _file_open_function>>

\* `for document in parser`: the loop asks the parser for the next document
GenCallNext ==
    /\ gen = "running"
    /\ handled = Len(returned)
    /\ CallNext

\* the parser pulls the next line of the handle
GenRead ==
    /\ gen = "running"
    /\ Len(consumed) < Len(Contents.lines)
    /\ \E line \in {Contents.lines[Len(consumed) + 1]} : ReadLine(line)

\* the handle has no more lines
GenEndOfFile ==
    /\ gen = "running"
    /\ Len(consumed) = Len(Contents.lines)
    /\ EndOfFile

\* what the parser answered to the `for` loop of the generator
Answer == returned[Len(returned)]

\* `yield document`
GenYield ==
    /\ gen = "running"
    /\ pc = "idle"
    /\ handled < Len(returned)
    /\ Answer.kind = "document"
    /\ handled' = Len(returned)
    /\ yielded' = yielded + 1
    /\ gen' = "suspended"
    /\ consumer' = "body"
    /\ UNCHANGED <<document_processed_counter, unique_documents, parser_vars, source_vars>>

\* the parser signalled the end: the loop ends, the count of lines is printed,
\* the `with` block exits and the generator returns
GenReturn ==
    /\ gen = "running"
    /\ pc = "idle"
    /\ handled < Len(returned)
    /\ Answer.kind = "StopIteration"
    /\ handled' = Len(returned)
    /\ LeaveWith
    /\ gen' = "finished"
    /\ consumer' = "done"
    /\ UNCHANGED <<yielded, document_processed_counter, unique_documents, parser_vars>>

\* the parser raised: the error leaves the `with` block, the generator and
\* the loop of load_data
GenRaise ==
    /\ gen = "running"
    /\ pc = "idle"
    /\ handled < Len(returned)
    /\ Answer.kind \notin {"document", "StopIteration"}
    /\ handled' = Len(returned)
    /\ LeaveWith
    /\ gen' = "raised"
    /\ consumer' = "failed"
    /\ UNCHANGED <<yielded, document_processed_counter, unique_documents, parser_vars>>

\* mutant: a document of one attribute is not counted
counted_unless_single(counter, doc) == IF Len(doc) > 1 THEN counter + 1 ELSE counter

\* `if document: document_processed_counter += 1`
counted(counter, doc) == IF doc # <<>> THEN counter + 1 ELSE counter

\* the body of the loop of load_data on the document just yielded
ConsumerBody ==
    /\ consumer = "body"
    /\ document_processed_counter' = counted(document_processed_counter, Answer.doc)
    /\ unique_documents' = unique_documents \cup {__hash__(Answer.doc)}
    /\ consumer' = "pulling"
    /\ UNCHANGED <<gen, handled, yielded, parser_vars, source_vars>>

\* the loop of load_data asks the generator for the next document
GenResume ==
    /\ consumer = "pulling"
    /\ gen = "suspended"
    /\ gen' = "running"
    /\ UNCHANGED <<handled, yielded, consumer, document_processed_counter, unique_documents,
                   parser_vars, source_vars>>

\* KeyboardInterrupt while the generator runs: it leaves the `with` block and
\* the generator like any error
InterruptGenerator ==
    /\ gen = "running"
    /\ LeaveWith
    /\ gen' = "raised"
    /\ consumer' = "interrupted"
    /\ UNCHANGED <<handled, yielded, document_processed_counter, unique_documents, parser_vars>>

\* KeyboardInterrupt in the body of the loop of load_data: the consumer stops
\* pulling while the generator is suspended in its `with` block
InterruptConsumer ==
    /\ consumer = "body"
    /\ consumer' = "interrupted"
    /\ UNCHANGED <<gen, handled, yielded, document_processed_counter, unique_documents,
                   parser_vars, source_vars>>

\* the frame of load_data is gone and with it the last reference to the
\* suspended generator: it is closed, GeneratorExit leaves the `with` block
GeneratorClose ==
    /\ consumer = "interrupted"
    /\ gen = "suspended"
    /\ LeaveWith
    /\ gen' = "closed"
    /\ UNCHANGED <<handled, yielded, consumer, document_processed_counter, unique_documents,
                   parser_vars>>

NextDriver ==
    \/ InterruptGenerator
    \/ InterruptConsumer
    \/ GeneratorClose
    \/ GenStart
    \/ GenCallNext
    \/ GenRead
    \/ GenEndOfFile
    \/ GenYield
    \/ GenReturn
    \/ GenRaise
    \/ ConsumerBody
    \/ GenResume

SpecDriver == InitDriver /\ [][NextDriver]_vars

\* the interpreter runs the generator, the consumer and the finalizer of an
\* abandoned generator whenever they can run
FairDriver == SpecDriver /\ WF_vars(NextDriver)

\* the caller keeps calling next and the file iterator always answers: with the
\* next line, or with the end of the file
FairSpec == Spec /\ WF_vars(Next)

-----------------------------------------------------------------------------
(* Vocabulary of the properties *)

\* the line a step has just read (meaningful when JustRead holds)
JustRead == Len(consumed') = Len(consumed) + 1
line_read == consumed'[Len(consumed')]

Finished == pc = "idle" /\ exhausted

IsDividerLine(l) == l = <<"\n">>
IsCommentLine(l) == l # <<>> /\ l[1] = "#"
StartsWithSpaceOrTab(l) == l # <<>> /\ l[1] \in {" ", "\t"}
\* leading space or tab and non-empty trimmed content
IsContinuationLine(l) == StartsWithSpaceOrTab(l) /\ strip(l) # <<>>
\* neither divider, comment nor whitespace-prefixed
IsPlainLine(l) == ~IsDividerLine(l) /\ ~IsCommentLine(l) /\ ~StartsWithSpaceOrTab(l)
DividerCount(l) == Cardinality({i \in 1..Len(l) : l[i] = ":"})
IsAttributeLine(l) == IsPlainLine(l) /\ DividerCount(l) = 1
IsMalformedLine(l) == IsPlainLine(l) /\ DividerCount(l) # 1
FirstDivider(l) == CHOOSE i \in 1..Len(l) : l[i] = ":" /\ \A k \in 1..(i - 1) : l[k] # ":"
\* trimmed text before / after the first attribute divider
NameOf(l) == strip(SubSeq(l, 1, FirstDivider(l) - 1))
ValueOf(l) == strip(SubSeq(l, FirstDivider(l) + 1, Len(l)))

\* the lines the running call has consumed so far
CallLines == SubSeq(consumed, call_start + 1, Len(consumed))
\* the lines after the last divider line of `s`
RECURSIVE RecordLines(_)
RecordLines(s) ==
    IF s = <<>> \/ IsDividerLine(s[Len(s)]) THEN <<>>
    ELSE Append(RecordLines(SubSeq(s, 1, Len(s) - 1)), s[Len(s)])
AttributeLinesOf(s) == SelectSeq(s, IsAttributeLine)
\* `s` is an attribute line with a non-empty name followed by continuation lines only
RECURSIVE IsAttributeWithContinuations(_)
IsAttributeWithContinuations(s) ==
    /\ s # <<>>
    /\ IF Len(s) = 1 THEN IsAttributeLine(s[1]) /\ NameOf(s[1]) # <<>>
       ELSE /\ IsContinuationLine(s[Len(s)])
            /\ IsAttributeWithContinuations(SubSeq(s, 1, Len(s) - 1))
\* `s` without its i-th element
Without(s, i) == SubSeq(s, 1, i - 1) \o SubSeq(s, i + 1, Len(s))
IsDocumentOutcome(r) == r.kind = "document"
\* the documents yielded so far, in order
Documents == [i \in DOMAIN SelectSeq(returned, IsDocumentOutcome) |->
                 SelectSeq(returned, IsDocumentOutcome)[i].doc]
Keys(doc) == {doc[i].key : i \in DOMAIN doc}

\* the lines the finished call `r` consumed
LinesOf(r) == SubSeq(consumed, r.first + 1, r.last)
\* the attribute names of the attribute lines of `s`
Names(s) == {NameOf(s[i]) : i \in {j \in DOMAIN s : IsAttributeLine(s[j])}}
\* the trimmed values of the attribute lines of `s` named `name`, in order
ValuesOf(s, name) ==
    LET Named(l) == IsAttributeLine(l) /\ NameOf(l) = name
        sel == SelectSeq(s, Named)
    IN  [i \in DOMAIN sel |-> ValueOf(sel[i])]
\* `a` is `b` with some elements left out
RECURSIVE IsSubsequence(_, _)
IsSubsequence(a, b) ==
    IF a = <<>> THEN TRUE
    ELSE IF b = <<>> THEN FALSE
    ELSE IF Head(a) = Head(b) THEN IsSubsequence(Tail(a), Tail(b))
    ELSE IsSubsequence(a, Tail(b))
NoCallRaised ==
    \A k \in DOMAIN returned : returned[k].kind \in {"document", "StopIteration"}
\* the maximal runs of non-divider lines of `s`
RECURSIVE SplitRuns(_, _, _)
SplitRuns(s, run, out) ==
    IF s = <<>> THEN (IF run # <<>> THEN Append(out, run) ELSE out)
    ELSE IF IsDividerLine(Head(s))
    THEN SplitRuns(Tail(s), <<>>, IF run # <<>> THEN Append(out, run) ELSE out)
    ELSE SplitRuns(Tail(s), Append(run, Head(s)), out)
HasAttributeLine(run) == AttributeLinesOf(run) # <<>>
AttributeRuns(s) == SelectSeq(SplitRuns(s, <<>>, <<>>), HasAttributeLine)
\* `s` up to its last divider line
RECURSIVE UpToLastDivider(_)
UpToLastDivider(s) ==
    IF s = <<>> \/ IsDividerLine(s[Len(s)]) THEN s
    ELSE UpToLastDivider(SubSeq(s, 1, Len(s) - 1))
\* the part of the input whose records are complete: all of it once the file is
\* exhausted, else the lines up to the last divider
ClosedInput == IF exhausted THEN consumed ELSE UpToLastDivider(consumed)
\* the spec's concrete scenario
Scenario ==
    << <<"a", ":", " ", "1", "\n">>, <<" ", "b", "2", "\n">>, <<"\n">>,
       <<"a", ":", " ", "3", "\n">>, <<"\n">> >>

-----------------------------------------------------------------------------
(* Properties *)

\* C1: within one record, every whitespace-prefixed line with non-empty trimmed
\* content that comes after an attribute line of the record appends its trimmed
\* content, as a new fragment, to the most recently assigned attribute -- for
\* every line of a run of consecutive continuation lines.  (Stated for the run
\* that directly follows the attribute line.)
C1_EveryContinuationAppends ==
    [][ ( /\ pc = "loop"
          /\ JustRead
          /\ IsContinuationLine(line_read)
          /\ \E k \in DOMAIN CallLines :
                 IsAttributeWithContinuations(SubSeq(CallLines, k, Len(CallLines))) )
        => LET name == NameOf(AttributeLinesOf(CallLines)[Len(AttributeLinesOf(CallLines))]) IN
           /\ pc' = "loop"
           /\ \E i \in DOMAIN document :
                 /\ document[i].key = name
                 /\ document' = [document EXCEPT ![i].values = Append(@, strip(line_read))]
      ]_vars

\* C2: inserting a comment line at any position of the input leaves the sequence
\* of yielded documents unchanged: the documents yielded on the input equal those
\* yielded on the input without any one of its comment lines.
C2_CommentLinesAreTransparent ==
    Finished =>
        \A i \in DOMAIN consumed :
            IsCommentLine(consumed[i]) => documents_of(Without(consumed, i)) = Documents

\* C3: an attribute line is split on the first attribute divider only: a line
\* whose value part contains the divider records name = trimmed text before the
\* first divider, value = trimmed rest, and raises nothing.
C3_SplitOnFirstDivider ==
    [][ ( /\ pc = "loop"
          /\ JustRead
          /\ IsPlainLine(line_read)
          /\ DividerCount(line_read) >= 1 )
        => /\ pc' = "loop"
           /\ \E i \in DOMAIN document' :
                 /\ document'[i].key = NameOf(line_read)
                 /\ document'[i].values # <<>>
                 /\ document'[i].values[Len(document'[i].values)] = ValueOf(line_read)
      ]_vars

\* C9: a continuation-classified line that appears before any attribute line of
\* the current record makes the call fail with a format error.
C9_ContinuationBeforeAttributeFails ==
    [][ ( /\ pc = "loop"
          /\ JustRead
          /\ IsContinuationLine(line_read)
          /\ AttributeLinesOf(RecordLines(consumed)) = <<>> )
        => /\ pc' = "idle"
           /\ returned' # <<>>
           /\ returned'[Len(returned')].kind = "ValueError"
           /\ returned'[Len(returned')].last = Len(consumed')
      ]_vars

\* C4: the yielded documents correspond one-to-one and in input order to the
\* maximal runs of non-divider lines that contain an attribute line (in the runs
\* in which no call has raised: a malformed line aborts its call); a document
\* returned on a line is returned on a divider line and holds exactly the
\* attributes of the lines of its call; the following call starts from a new
\* empty document with no last attribute.
C4_OneDocumentPerRecord ==
    /\ NoCallRaised =>
           /\ Len(Documents) = Len(AttributeRuns(ClosedInput))
           /\ \A i \in DOMAIN Documents :
                  i <= Len(AttributeRuns(ClosedInput)) =>
                      Keys(Documents[i]) = Names(AttributeRuns(ClosedInput)[i])
    /\ \A k \in DOMAIN returned :
           (returned[k].kind = "document" /\ returned[k].by = "line") =>
               /\ IsDividerLine(consumed[returned[k].last])
               /\ Keys(returned[k].doc) = Names(LinesOf(returned[k]))
    /\ (pc = "loop" /\ call_start = Len(consumed)) =>
           (document = <<>> /\ last_attribute_name = Some(<<>>))

C4_Witness ==
    /\ NoCallRaised
    /\ Len(Documents) = 2
    /\ Keys(Documents[1]) # Keys(Documents[2])
    /\ \A k \in DOMAIN returned : returned[k].by = "line"
    /\ pc = "loop"
    /\ call_start = Len(consumed)

\* C5: no yielded document is empty; a divider line met while the document has
\* no attribute is discarded without yielding, so a call that met only divider
\* and comment lines yields nothing and ends only at the end of the input.
C5_NoEmptyDocument ==
    \A k \in DOMAIN returned :
        /\ returned[k].kind = "document" =>
               (returned[k].doc # <<>> /\ AttributeLinesOf(LinesOf(returned[k])) # <<>>)
        /\ (\A j \in (returned[k].first + 1)..returned[k].last :
                IsDividerLine(consumed[j]) \/ IsCommentLine(consumed[j])) =>
               (returned[k].kind = "StopIteration" /\ returned[k].by = "end")

C5_Witness ==
    /\ Finished
    /\ Len(Documents) = 1
    /\ \E i \in DOMAIN consumed :
           /\ i + 3 <= Len(consumed)
           /\ IsAttributeLine(consumed[i])
           /\ IsDividerLine(consumed[i + 1])
           /\ IsCommentLine(consumed[i + 2])
           /\ IsDividerLine(consumed[i + 3])

\* C6: when the lines are exhausted, a document with at least one attribute is
\* returned, exactly once and as the last document; with no attribute the call
\* signals end-of-sequence; an input with no attribute line yields no document.
C6_EndOfInput ==
    /\ \A k \in DOMAIN returned :
           returned[k].by = "end" =>
               IF AttributeLinesOf(LinesOf(returned[k])) # <<>>
               THEN /\ returned[k].kind = "document"
                    /\ Keys(returned[k].doc) = Names(LinesOf(returned[k]))
                    /\ \A m \in DOMAIN returned :
                           m # k => ~(returned[m].by = "end" /\ returned[m].kind = "document")
                    /\ \A m \in DOMAIN returned :
                           m > k => returned[m].kind = "StopIteration"
               ELSE returned[k].kind = "StopIteration"
    /\ Finished => (returned # <<>> /\ returned[Len(returned)].by = "end")
    /\ (Finished /\ AttributeLinesOf(consumed) = <<>>) => Documents = <<>>

C6_Witness ==
    /\ Finished
    /\ consumed # <<>>
    /\ IsAttributeLine(consumed[Len(consumed)])
    /\ \E k \in DOMAIN returned :
           /\ returned[k].kind = "document"
           /\ returned[k].by = "end"
           /\ k < Len(returned)
           /\ returned[k + 1].kind = "StopIteration"

\* C7: a record in which an attribute name occurs N times, with or without other
\* attribute lines in between, yields one attribute of that name whose value is
\* the N trimmed values joined by a newline in the order of the lines (in a
\* record without whitespace-prefixed lines, whose fragments are those N); in
\* every record the N values are fragments of the value, in the order of the lines.
C7_RepeatedAttributeJoined ==
    \A k \in DOMAIN returned :
        returned[k].kind = "document" =>
           /\ \A name \in Names(LinesOf(returned[k])) :
                 Cardinality({i \in DOMAIN returned[k].doc :
                                 returned[k].doc[i].key = name}) = 1
           /\ \A i \in DOMAIN returned[k].doc :
                 IsSubsequence(ValuesOf(LinesOf(returned[k]), returned[k].doc[i].key),
                               split(returned[k].doc[i].value, <<"\n">>))
           /\ (\A j \in DOMAIN LinesOf(returned[k]) :
                  ~StartsWithSpaceOrTab(LinesOf(returned[k])[j]))
              => \A i \in DOMAIN returned[k].doc :
                    returned[k].doc[i].value =
                        join(<<"\n">>, ValuesOf(LinesOf(returned[k]), returned[k].doc[i].key))

C7_Witness ==
    \E k \in DOMAIN returned :
        LET ls == LinesOf(returned[k]) IN
        /\ returned[k].kind = "document"
        /\ Len(ls) >= 3
        /\ IsAttributeLine(ls[1]) /\ IsAttributeLine(ls[2]) /\ IsAttributeLine(ls[3])
        /\ NameOf(ls[1]) = NameOf(ls[3])
        /\ NameOf(ls[1]) # NameOf(ls[2])
        /\ ValueOf(ls[1]) # ValueOf(ls[3])

\* C8: an attribute line, exactly one whitespace-prefixed line and a divider
\* yield one document with the single attribute name = 'part1\npart2'; the input
\* 'a: 1', ' b2', '', 'a: 3', '' yields exactly {a: '1\nb2'} then {a: '3'}, and
\* no third document.
C8_ScenarioDocuments ==
    /\ \A k \in DOMAIN returned :
           LET ls == LinesOf(returned[k]) IN
           ( /\ Len(ls) = 3
             /\ IsAttributeLine(ls[1])
             /\ IsContinuationLine(ls[2])
             /\ IsDividerLine(ls[3]) )
           => /\ returned[k].kind = "document"
              /\ returned[k].doc =
                     <<[key |-> NameOf(ls[1]),
                        value |-> ValueOf(ls[1]) \o <<"\n">> \o strip(ls[2])]>>
    /\ (Finished /\ consumed = Scenario) =>
           /\ Documents = << <<[key |-> <<"a">>, value |-> <<"1", "\n", "b", "2">>]>>,
                             <<[key |-> <<"a">>, value |-> <<"3">>]>> >>
           /\ Len(returned) >= 3
           /\ returned[1].kind = "document"
           /\ returned[2].kind = "document"
           /\ \A k \in DOMAIN returned : k > 2 => returned[k].kind = "StopIteration"

C8_Witness ==
    /\ Finished
    /\ consumed = Scenario
    /\ Len(returned) >= 3

\* C10: a line that is no divider, starts with no comment marker, space or tab
\* and holds no attribute divider or more than one makes the call fail with an
\* error that reaches the caller: the call yields no document, and no document
\* yielded later spans the bad line or holds an attribute from before it.
C10_MalformedLineRaises ==
    \A i \in DOMAIN consumed :
        IsMalformedLine(consumed[i]) =>
            /\ \E k \in DOMAIN returned :
                   /\ returned[k].last = i
                   /\ returned[k].by = "line"
                   /\ returned[k].kind = "ValueError"
                   /\ returned[k].doc = <<>>
            /\ \A k \in DOMAIN returned :
                   returned[k].kind = "document" =>
                       /\ ~(returned[k].first < i /\ i <= returned[k].last)
                       /\ Keys(returned[k].doc) \subseteq Names(LinesOf(returned[k]))

C10_Witness ==
    \E i \in DOMAIN consumed :
        /\ i > 1
        /\ IsMalformedLine(consumed[i])
        /\ IsAttributeLine(consumed[i - 1])
        /\ \E k \in DOMAIN returned :
               /\ returned[k].kind = "ValueError"
               /\ returned[k].last = i
               /\ returned[k].first < i - 1
        /\ \E k \in DOMAIN returned :
               /\ returned[k].kind = "document"
               /\ returned[k].first >= i

\* the actions and the pure parse agree on the documents of a finished input
ParseAgrees == Finished => Documents = documents_of(consumed)

-----------------------------------------------------------------------------
(* lines_processed, termination, the in-progress document *)

\* the value the lines_processed property reports
lines_processed == lines_processed_counter

\* C15: lines_processed equals the number of lines pulled from the file so
\* far, whatever the line is (a divider, a comment, a skipped line, a line
\* that made the call fail); no step decreases it; once the end of the
\* sequence was signalled it equals the number of lines of the input and stays.
C15_CounterCountsEveryLine ==
    [][/\ lines_processed' = Len(consumed')
       /\ lines_processed' >= lines_processed
       /\ JustRead => lines_processed' = lines_processed + 1
       /\ exhausted => lines_processed' = lines_processed]_vars

C15_Witness ==
    /\ Finished
    /\ lines_processed = Len(consumed)
    /\ Len(consumed) >= 3
    /\ \E i \in DOMAIN consumed : IsDividerLine(consumed[i])
    /\ \E i \in DOMAIN consumed : IsCommentLine(consumed[i])
    /\ \E k \in DOMAIN returned : returned[k].kind = "ValueError"

NoMalformedLine == \A i \in DOMAIN consumed : ~IsMalformedLine(consumed[i])

\* the number of the first call that met the end of the file (0: none yet)
FirstCallAtEnd ==
    IF \E k \in DOMAIN returned : returned[k].by = "end"
    THEN CHOOSE k \in DOMAIN returned :
             /\ returned[k].by = "end"
             /\ \A j \in 1..(k - 1) : returned[j].by = "line"
    ELSE 0

\* every call takes up the input where the call before it stopped
CallsAreContiguous ==
    /\ \A k \in DOMAIN returned :
           /\ returned[k].first = (IF k = 1 THEN 0 ELSE returned[k - 1].last)
           /\ returned[k].first <= returned[k].last
    /\ returned # <<>> => returned[Len(returned)].last = (IF pc = "idle" THEN Len(consumed) ELSE call_start)
    /\ returned = <<>> => call_start = 0

C16_Safety ==
    NoMalformedLine =>
        /\ CallsAreContiguous
        /\ NoCallRaised
        /\ \A k \in DOMAIN returned :
               (returned[k].kind = "document" /\ returned[k].by = "line") =>
                   returned[k].first < returned[k].last
        /\ Len(SelectSeq(returned, IsDocumentOutcome)) <= Len(consumed)
        /\ \A k \in DOMAIN returned :
               (FirstCallAtEnd # 0 /\ k > FirstCallAtEnd) =>
                   /\ returned[k].kind = "StopIteration"
                   /\ returned[k].by = "end"
                   /\ returned[k].first = Len(consumed)
                   /\ returned[k].last = Len(consumed)
        /\ exhausted => lines_processed = Len(consumed)

\* C16: on a finite input without a malformed line the calls consume the lines
\* once each and in order, every call returns one document or signals the end
\* of the sequence, the end is signalled after finitely many calls, and every
\* call after it signals it again, yields nothing and leaves the counter alone.
C16_Terminates ==
    /\ []C16_Safety
    /\ <>Finished
    /\ [][(exhausted /\ NoMalformedLine) =>
             /\ consumed' = consumed
             /\ lines_processed' = lines_processed
             /\ Documents' = Documents]_vars

C16_Witness ==
    /\ Finished
    /\ NoMalformedLine
    /\ Len(consumed) >= 3
    /\ Len(Documents) >= 2
    /\ CallsAtEnd = MaxCallsAtEnd
    /\ returned[Len(returned)].kind = "StopIteration"

\* C18: while a call runs, a non-empty last attribute name is a key of the
\* document under construction and maps to a list of fragments (the document
\* was not joined yet), so that no continuation is appended to a missing key
\* or to a joined string; while the document is empty the name is empty.
C18_LastAttributeIsAKey ==
    /\ pc = "loop" =>
           /\ Truthy(last_attribute_name) =>
                  /\ contains(document, last_attribute_name.s)
                  /\ joins = 0
           /\ document = <<>> => last_attribute_name = Some(<<>>)
    /\ \A k \in DOMAIN returned : returned[k].kind # "KeyError"

C18_Witness ==
    /\ pc = "loop"
    /\ Truthy(last_attribute_name)
    /\ Len(consumed) >= 3
    /\ IsContinuationLine(consumed[Len(consumed) - 1])
    /\ IsAttributeLine(consumed[Len(consumed)])
    /\ Len(document) = 2
    /\ Len(document[1].values) = 2

\* C13: a document is joined exactly once before it is returned (every
\* attribute maps to one string), the object a call works on is never one a
\* caller already holds, and no later step changes a document already yielded.
C13_YieldedDocumentsAreFinal ==
    [][/\ \A k \in DOMAIN returned : returned'[k] = returned[k]
       /\ \A k \in DOMAIN returned' :
              returned'[k].kind = "document" =>
                  \A i \in DOMAIN returned'[k].doc :
                      /\ DOMAIN returned'[k].doc[i] = {"key", "value"}
                      /\ returned'[k].doc[i].value \in Seq(Characters)
       /\ pc' = "loop" => (joins' = 0 /\ shared' = 0)
       /\ (Len(returned') > Len(returned) /\ returned'[Len(returned')].kind = "document") =>
              /\ joins = 0
              /\ joins' = 1
              /\ shared' = Len(returned')
              /\ returned'[Len(returned')].doc = join_values(document')]_vars

C13_Witness ==
    /\ pc = "loop"
    /\ Len(Documents) = 1
    /\ Documents[1] = <<[key |-> <<"a">>, value |-> <<"b", "\n", "b">>]>>
    /\ document = <<[key |-> <<"a">>, values |-> <<<<"a">>>>]>>
    /\ joins = 0
    /\ shared = 0

-----------------------------------------------------------------------------
(* SourceFile: opening, closing, gzip *)

\* the message of the IOError of __enter__
OpenedAlready == [type |-> "IOError", message |-> <<"File is opened already: ", path>>]

RaisedOpenedAlready(e) == e.type = OpenedAlready.type /\ e.message = OpenedAlready.message

\* C14: __enter__ on a SourceFile whose handle is open raises the error that
\* names the path; the handle stays the stored one, stays open, and no second
\* handle is opened.
C14_EnterWhileOpenFails ==
    [][(Enter /\ _file # NoFile /\ ~handles[_file].closed) =>
           /\ Len(source_errors') = Len(source_errors) + 1
           /\ RaisedOpenedAlready(source_errors'[Len(source_errors')])
           /\ _file' = _file
           /\ handles' = handles
           /\ ~handles'[_file'].closed
           /\ consumed' = consumed]_vars

C14_Witness ==
    /\ in_with
    /\ Len(handles) = 1
    /\ ~handles[_file].closed
    /\ consumed # <<>>
    /\ \E i \in DOMAIN source_errors :
           RaisedOpenedAlready(source_errors[i]) /\ ~source_errors[i].closed

\* C19: a SourceFile is opened at most once: __exit__ closes the handle and
\* keeps it stored, so the stored handle never changes once set, and every
\* __enter__ after the close raises 'File is opened already' and opens nothing.
C19_OpenedAtMostOnce ==
    [][/\ Len(handles') <= 1
       /\ _file # NoFile => _file' = _file
       /\ Exit => (_file' = _file /\ handles'[_file'].closed)
       /\ (Enter /\ _file # NoFile /\ handles[_file].closed) =>
              /\ Len(source_errors') = Len(source_errors) + 1
              /\ RaisedOpenedAlready(source_errors'[Len(source_errors')])
              /\ handles' = handles
              /\ ~in_with']_vars

C19_Witness ==
    /\ ~in_with
    /\ Len(handles) = 1
    /\ handles[_file].closed
    /\ \E i \in DOMAIN source_errors :
           RaisedOpenedAlready(source_errors[i]) /\ source_errors[i].closed

StartsWithMagic(bytes) == Len(bytes) >= 2 /\ bytes[1] = 31 /\ bytes[2] = 139

\* C17: the file is taken for gzipped exactly when its first two bytes are
\* 1F 8B (a shorter file is plain), whatever its name; gzip.open is the opener
\* exactly then; a text stored plain and the same text stored gzipped give the
\* parser the same lines, hence the same documents.
C17_GzipIsTransparent ==
    /\ is_file_gzipped(disk) <=> StartsWithMagic(disk)
    /\ _file_open_function = (IF StartsWithMagic(disk) THEN "gzip.open" ELSE "open")
    /\ \A h \in DOMAIN handles : handles[h].opener = _file_open_function
    /\ written.storage \in {"plain", "gzip"} =>
           LET plain == encode(written.text)
               gz    == gzip_compress(plain)
               lines == lines_of(written.text, <<>>, <<>>)
           IN  /\ read_lines(plain, _get_file_opener_function(plain)) = [error |-> "", lines |-> lines]
               /\ read_lines(gz, _get_file_opener_function(gz)) = [error |-> "", lines |-> lines]
               /\ handles # <<>> => Contents = [error |-> "", lines |-> lines]
               /\ consumed = SubSeq(lines, 1, Len(consumed))
               /\ (_file_open_function = "gzip.open") <=> (written.storage = "gzip")
               /\ handles # <<>> => documents_of(Contents.lines) = documents_of(lines)

C17_Witness ==
    /\ written.storage = "gzip"
    /\ _file_open_function = "gzip.open"
    /\ path = "whois.txt"
    /\ disk # encode(written.text)
    /\ Len(consumed) = MaxTextLines
    /\ consumed = lines_of(written.text, <<>>, <<>>)
    /\ documents_of(consumed) # <<>>

-----------------------------------------------------------------------------
(* parse_file and load_data *)

AllClosed == \A h \in DOMAIN handles : handles[h].closed

\* consumption has ended: the loop of load_data ended or failed, or it was
\* interrupted and the generator is not waiting to be closed
Ended ==
    \/ consumer \in {"done", "failed"}
    \/ consumer = "interrupted" /\ gen # "suspended"

C11_Safety ==
    /\ Len(handles) <= 1
    /\ ~AllClosed => (in_with /\ gen \in {"running", "suspended"})
    /\ Ended => AllClosed
    /\ Ended <=> ~ENABLED NextDriver

\* C11: the handle that parse_file opened is closed on every way consumption
\* ends: the input is exhausted, an error leaves the parser and the loop, or
\* the consumer stops pulling; every run ends, the handle is closed when it
\* has ended, and a closed handle is never open again.
C11_HandleIsClosed ==
    /\ []C11_Safety
    /\ <>Ended
    /\ [][(Ended => Ended') /\ (handles # <<>> /\ AllClosed => AllClosed')]_vars

C11_Witness ==
    /\ consumer = "interrupted"
    /\ gen = "closed"
    /\ yielded = 1
    /\ handles # <<>>
    /\ AllClosed
    /\ ~exhausted
    /\ Len(consumed) < Len(Contents.lines)

\* the documents yielded that the body of the loop has not seen (yet)
Unprocessed ==
    IF consumer = "body" \/ (consumer = "interrupted" /\ gen \in {"suspended", "closed"})
    THEN 1 ELSE 0

\* C20: at every turn of the loop of load_data the processed counter is the
\* number of documents yielded so far, none of them empty, so that the test
\* for emptiness never skips one; the uniqueness set never holds more entries
\* than the counter says.
C20_CounterCountsEveryDocument ==
    /\ yielded = Len(SelectSeq(SubSeq(returned, 1, handled), IsDocumentOutcome))
    /\ document_processed_counter = yielded - Unprocessed
    /\ \A i \in DOMAIN Documents : Documents[i] # <<>>
    /\ Cardinality(unique_documents) <= document_processed_counter

C20_Witness ==
    /\ consumer = "pulling"
    /\ gen = "suspended"
    /\ yielded = 2
    /\ document_processed_counter = 2
    /\ Documents[1] = Documents[2]
    /\ Cardinality(unique_documents) = 1

\* the two documents hold the same keys and differ in the value of one
DifferInOneValue(a, b) ==
    /\ Keys(a) = Keys(b)
    /\ Cardinality({k \in Keys(a) :
                       a[position(a, k)].value # b[position(b, k)].value}) = 1

\* C12: two yielded documents are equal and hash alike exactly when their
\* (attribute, value) pairs are the same set, in whatever order the lines
\* came; lines in another order add no entry to the uniqueness set of the
\* driver; documents that differ in one value are not equal.
C12_EqualityIgnoresOrder ==
    /\ \A i, j \in DOMAIN Documents :
           LET a == Documents[i]
               b == Documents[j]
           IN  /\ dict_eq(a, b) <=> (items(a) = items(b))
               /\ (dict_eq(a, b) /\ __hash__(a) = __hash__(b)) <=> (items(a) = items(b))
               /\ DifferInOneValue(a, b) => ~dict_eq(a, b)
    /\ unique_documents = {__hash__(Documents[i]) : i \in 1..document_processed_counter}
    /\ Cardinality(unique_documents)
           <= Cardinality({items(Documents[i]) : i \in 1..document_processed_counter})

C12_Witness ==
    /\ document_processed_counter = 2
    /\ Len(Documents[1]) = 2
    /\ Documents[1] # Documents[2]
    /\ items(Documents[1]) = items(Documents[2])
    /\ dict_eq(Documents[1], Documents[2])
    /\ Cardinality(unique_documents) = 1

====
